---------------------------- MODULE Spec2Model ----------------------------
(***************************************************************************)
(* Model of JUJUx1/Draw.                                                   *)
(*                                                                         *)
(*   src/server.js  the ConversionService: express handlers that archive   *)
(*                  an image, encode it and publish drawing.json through   *)
(*                  the GitHub contents API (read sha, then PUT).          *)
(*   src/Draw.lua   the PlaybackAgent: a polling loop that fetches         *)
(*                  drawing.json and replays it in batches on Heartbeat.   *)
(*                                                                         *)
(* src/server.js holds two copies of the service (lines 1-305 and 307-522). *)
(* The first is the one with checkConfig, verifyGitHubAccess and           *)
(* githubErrMessage; the second differs from it in POST /upload and in the *)
(* messages of the catch blocks of the two convert routes.                 *)
(*                                                                         *)
(* Spec       the first copy: concurrent requests against one store.       *)
(* SecondSpec the second copy, against the same store.                     *)
(* AgentSpec the playback agent against a document that changes under it.  *)
(* AgentLive AgentSpec with the fairness of the engine's scheduler.        *)
(* PureSpec  the filename sanitizer and the pixel encoder applied to       *)
(*           bounded sets of names and rasters.                             *)
(***************************************************************************)
EXTENDS Integers, Sequences, FiniteSets, TLC

VARIABLES
    \* ---- src/server.js ----
    copy,           \* which copy of the service runs: 1 or 2
    token,          \* GITHUB_TOKEN is set
    repo,           \* GITHUB_REPO is set
    clock,          \* the last reading of the clock a handler took
    elapsed,        \* time has passed since that reading was taken
    store,          \* the repository branch: path -> NoFile or [sha, content]
    req,            \* the requests: id -> the handler's position and locals
    \* ---- src/Draw.lua ----
    remote,         \* what RAW_JSON_URL serves
    published,      \* number of times the served content was replaced
    lastTimestamp,  \* stamp of the last drawing that was started
    isDrawing,
    drawConnection, \* the connection startDrawing registered, or Nil
    conns,          \* the live Heartbeat connections: id -> closure state
    nextConn,       \* the next connection id
    pollPc,         \* position of the polling thread
    canvasLog,      \* every batch fired at ReplicateCanvas, in order
    started,        \* the drawings handed to startDrawing, in order
    lastFetch,      \* how the last fetchAndDraw ended
    ticks,          \* Heartbeat callbacks run since the last startDrawing
    fetchStarts,    \* number of fetches started while isDrawing was true
    pendingRefresh, \* task.delay callbacks scheduled and not yet run: their drawings
    refreshed,      \* the drawings UpdateBoard:FireServer was called for, in order
    refreshThrew,   \* the last UpdateBoard:FireServer threw
    hasUpdateBoard, \* the UpdateBoard remote was found
    fireThrows,     \* how many of sendBulk's FireServer calls throw: 0, 1 or 2
    \* ---- pure functions of src/server.js, applied on their own ----
    call            \* the function applied last, its argument and its result

serverVars == <<copy, token, repo, clock, elapsed, store, req>>
agentVars  == <<remote, published, lastTimestamp, isDrawing, drawConnection,
                conns, nextConn, pollPc, canvasLog, started, lastFetch, ticks,
                fetchStarts,
                pendingRefresh, refreshed, refreshThrew, hasUpdateBoard,
                fireThrows>>
vars == <<serverVars, agentVars, call>>

---------------------------------------------------------------------------
\* Bounds of the model.

\* number of requests the service receives (they may overlap)
NumReqs == 2
\* side of the pixel grid used in the model (CANVAS_SIZE is an environment setting)
CanvasSide == 2
\* number of times the served document is replaced in the agent model
MaxPublish == 2
\* longest filename drawn from NameChars
MaxNameLen == 3

---------------------------------------------------------------------------
\* Program constants.

BATCH_SIZE == 5
TARGET_LAYER == 1
ALPHA_MIN == 10
CANVAS_SIZE == CanvasSide
DRAWING_FILE == <<"drawing.json">>
IMAGES_FOLDER == "images"

Nil == "nil"
\* the value of drawConnection when no connection is registered (nil)
NoConnection == 0
\* null, as getFileSha returns it
NoSha == <<"null">>
NoFile == [sha |-> NoSha, content |-> <<"none">>]

---------------------------------------------------------------------------
\* Strings are sequences of one-character strings.

UpperCase == <<"A","B","C","D","E","F","G","H","I","J","K","L","M",
               "N","O","P","Q","R","S","T","U","V","W","X","Y","Z">>
LowerCase == <<"a","b","c","d","e","f","g","h","i","j","k","l","m",
               "n","o","p","q","r","s","t","u","v","w","x","y","z">>
Digits == <<"0","1","2","3","4","5","6","7","8","9">>
Whitespace == {" ", "\t", "\n", "\r"}

Range(s) == {s[i] : i \in 1..Len(s)}

\* String.prototype.toLowerCase on one character
LowerChar(c) ==
    IF \E i \in 1..26 : UpperCase[i] = c
    THEN LowerCase[CHOOSE i \in 1..26 : UpperCase[i] = c]
    ELSE c

ToLowerCase(s) == [i \in 1..Len(s) |-> LowerChar(s[i])]

\* s.replace(/\s+/g, "_"): each maximal run of whitespace becomes one "_"
RECURSIVE ReplaceWhitespace(_)
ReplaceWhitespace(s) ==
    IF s = <<>> THEN <<>>
    ELSE IF Head(s) \in Whitespace
         THEN IF Len(s) > 1 /\ s[2] \in Whitespace
              THEN ReplaceWhitespace(Tail(s))
              ELSE <<"_">> \o ReplaceWhitespace(Tail(s))
         ELSE <<Head(s)>> \o ReplaceWhitespace(Tail(s))

SafeChars == Range(LowerCase) \cup Range(Digits) \cup {".", "_", "-"}
IsSafeChar(c) == c \in SafeChars

\* s.replace(/[^a-z0-9._-]/g, "")
StripUnsafe(s) == SelectSeq(s, IsSafeChar)

\* the three steps of line 127 in another order: strip, replace, lower-case
SanitizeStripFirst(filename) ==
    ToLowerCase(ReplaceWhitespace(StripUnsafe(filename)))

\* saveImageToRepo, line 127
Sanitize(filename) == StripUnsafe(ReplaceWhitespace(ToLowerCase(filename)))

ImagePath(name) == <<IMAGES_FOLDER, name>>
RawUrl(path) == <<"raw", path>>


---------------------------------------------------------------------------
\* Images.  sharp (decode, resize to CANVAS_SIZE x CANVAS_SIZE with fit "fill",
\* ensureAlpha, raw) is a library: a buffer is identified with the raster the
\* library returns for it, or with the fact that it cannot be decoded.

Buffers == {"red", "mixed", "clear", "corrupt"}
Decodable(buffer) == buffer # "corrupt"

AlphaCycle == <<255, 9, 10, 0>>

\* the RGBA bytes of cell k (row-major, 0-based) of the resized raster
CellBytes(buffer, k) ==
    CASE buffer = "red"   -> <<255, 0, 0, 255>>
      [] buffer = "clear" -> <<k + 1, 7, 7, 0>>
      [] OTHER            -> <<k + 1, 2 * k, 100, AlphaCycle[(k % 4) + 1]>>

\* { data, info } of sharp(buffer)...toBuffer({ resolveWithObject: true })
Raster(buffer) ==
    [data |-> [j \in 1..(CANVAS_SIZE * CANVAS_SIZE * 4) |->
                  CellBytes(buffer, (j - 1) \div 4)[((j - 1) % 4) + 1]],
     info |-> [width |-> CANVAS_SIZE, height |-> CANVAS_SIZE]]

\* line 98: the offset of cell (x, y) in data
Offset(info, x, y) == (y * info.width + x) * 4

\* the test of line 100 skipping the threshold itself as well
SkipsAtThreshold(data, info, x, y) == data[Offset(info, x, y) + 4] <= ALPHA_MIN

\* line 100: if (a < 10) continue
Skips(data, info, x, y) == data[Offset(info, x, y) + 4] < ALPHA_MIN

\* the record pushed with the loop counters as they are
PixelAtZeroBased(data, info, x, y) ==
    LET i == Offset(info, x, y)
    IN  [x |-> x, y |-> y, r |-> data[i + 1], g |-> data[i + 2], b |-> data[i + 3]]

\* lines 99 and 101: the record pushed for cell (x, y)
PixelAt(data, info, x, y) ==
    LET i == Offset(info, x, y)
    IN  [x |-> x + 1, y |-> y + 1,
         r |-> data[i + 1], g |-> data[i + 2], b |-> data[i + 3]]

\* the inner loop of imageToPixels: for (x = 0; x < info.width; x++)
RECURSIVE ScanRow(_, _, _, _)
ScanRow(data, info, y, x) ==
    IF x >= info.width THEN <<>>
    ELSE (IF Skips(data, info, x, y) THEN <<>>
          ELSE <<PixelAt(data, info, x, y)>>)
         \o ScanRow(data, info, y, x + 1)

\* the outer loop of imageToPixels: for (y = 0; y < info.height; y++)
RECURSIVE ScanRows(_, _, _)
ScanRows(data, info, y) ==
    IF y >= info.height THEN <<>>
    ELSE ScanRow(data, info, y, 0) \o ScanRows(data, info, y + 1)

\* lines 95-104: the loops of imageToPixels over { data, info }
PixelsOf(ras) == ScanRows(ras.data, ras.info, 0)

imageToPixels(buffer) == PixelsOf(Raster(buffer))

---------------------------------------------------------------------------
\* Encodings.  Each is injective; the model keeps the wrapper so that stored
\* content is told apart from the value it encodes.

\* the content identifier the store assigns: the hash of the content
Sha(content) == <<"sha", content>>
Base64(x) == <<"base64", x>>
FromBase64(c) == c[2]
JSONStringify(x) == <<"json", x>>
JSONParse(c) == c[2]
\* Date.prototype.toISOString of a clock reading
toISOString(ms) == <<"iso", ms>>

---------------------------------------------------------------------------
\* Errors of remote calls.  status 0: no response was received.

ErrNet == [status |-> 0,   message |-> <<"Network Error">>]
Err401 == [status |-> 401, message |-> <<"Bad credentials">>]
Err403 == [status |-> 403, message |-> <<"Resource not accessible">>]
Err404 == [status |-> 404, message |-> <<"Not Found">>]
Err409 == [status |-> 409, message |-> <<"does not match sha">>]
Err422 == [status |-> 422, message |-> <<"sha wasn't supplied">>]
ErrDecode == [status |-> 0, message |-> <<"unsupported image format">>]

\* axios: err.message of a failed request
AxiosMessage(err) ==
    IF err.status = 0 THEN err.message
    ELSE <<"Request failed with status code", ToString(err.status)>>

\* checkConfig, lines 30-35
checkConfig ==
    (IF ~token THEN <<"GITHUB_TOKEN is not set">> ELSE <<>>)
    \o (IF ~repo THEN <<"GITHUB_REPO is not set">> ELSE <<>>)

\* githubErrMessage, lines 161-167
githubErrMessage(err) ==
    CASE err.status = 404 -> <<"Repo not found. Check GITHUB_REPO">>
      [] err.status = 401 -> <<"GitHub token is invalid or expired">>
      [] err.status = 403 -> <<"GitHub token doesn't have write access">>
      [] OTHER -> err.message

\* How a call to api.github.com can fail whatever the store holds.  Without a
\* token the API answers 401; without a repository name the URL names the
\* repository "undefined" and the API answers 404.
ApiFailures ==
    IF ~token THEN {Err401}
    ELSE IF ~repo THEN {Err404}
    ELSE {ErrNet, Err403}
ApiReachable == token /\ repo

---------------------------------------------------------------------------
\* Responses.

NoRes == [status |-> 0, type |-> "none", error |-> <<>>, data |-> <<>>]
ErrorRes(status, msg) ==
    [status |-> status, type |-> "error", error |-> msg, data |-> <<>>]
SuccessRes(data) ==
    [status |-> 200, type |-> "success", error |-> <<>>, data |-> data]
ImagesRes(list) ==
    [status |-> 200, type |-> "images", error |-> <<>>, data |-> list]
\* the body of GET /config-check: { ok, issues } or { ok: true, ... }
ConfigRes(ok, issues) ==
    [status |-> 200, type |-> "config", error |-> <<>>,
     data |-> [ok |-> ok, issues |-> issues]]
\* the body of GET /status
StatusRes(data) ==
    [status |-> 200, type |-> "status", error |-> <<>>, data |-> data]


---------------------------------------------------------------------------
\* The inputs of the requests.

Reqs == 1..NumReqs

\* req.file.originalname
Filenames == { <<"A", " ", "b", "!">> }
\* req.params.filename of DELETE /images/:filename
DeleteNames == { Sanitize(n) : n \in Filenames } \cup { <<"z">> }
\* the image an address outside the repository serves
ExternalUrl == <<"raw", <<"elsewhere">>>>
ExternalBuffer == "mixed"
NoUrl == <<>>
RawUrls == { RawUrl(ImagePath(Sanitize(n))) : n \in Filenames } \cup {ExternalUrl}
UploadBuffers == {"red", "corrupt"}

ImagePaths == { ImagePath(n) : n \in DeleteNames }
Paths == {DRAWING_FILE} \cup ImagePaths

Exists(path) == store[path] # NoFile

StoredFile(content) == [sha |-> Sha(content), content |-> content]

\* the document a deployment may already hold when the service starts
SeedDoc ==
    [meta |-> [canvasSize |-> CANVAS_SIZE, totalPixels |-> 0,
               updatedAt |-> toISOString(-1),
               filename |-> <<"seed">>, imageUrl |-> ExternalUrl],
     pixels |-> <<>>]
SeedName == Sanitize(<<"A", " ", "b", "!">>)
SeedStore ==
    [p \in Paths |->
        CASE p = DRAWING_FILE -> StoredFile(Base64(JSONStringify(SeedDoc)))
          [] p = ImagePath(SeedName) -> StoredFile(Base64("mixed"))
          [] OTHER -> NoFile]
EmptyStore == [p \in Paths |-> NoFile]

IdleReq ==
    [kind |-> "none", pc |-> "idle", name |-> <<>>, buffer |-> "none",
     rawUrl |-> NoUrl, filePath |-> <<>>, sha |-> NoSha, content |-> <<>>,
     pixels |-> <<>>, payload |-> <<>>, imageInfo |-> <<>>,
     docPut |-> "none", sent |-> 0, res |-> NoRes]

ServerInit ==
    /\ copy = 1
    /\ token \in BOOLEAN
    /\ repo \in BOOLEAN
    /\ clock = 0
    /\ elapsed = FALSE
    /\ store \in {EmptyStore, SeedStore}
    /\ req = [r \in Reqs |-> IdleReq]

---------------------------------------------------------------------------
\* Steps shared by the handlers.

\* A remote call takes time: the clock has moved on when its answer arrives.
\* Readings are numbered in the order they are taken: two readings are equal
\* exactly when no answer of a remote call arrived between them.
Elapse == elapsed' = TRUE /\ clock' = clock

\* new Date(): the reading taken now
Now == IF elapsed THEN clock + 1 ELSE clock

\* Requests are numbered in the order they arrive.
Arrives(r) ==
    /\ req[r].pc = "idle"
    /\ r > 1 => req[r - 1].pc # "idle"

\* res.status(..).json(..): the handler has answered
\* The locals of the handler are gone; the model keeps, beside the answer
\* and the number of answers sent, the sha the handler read last, what became
\* of its write of drawing.json and the path a DELETE named.
Answered(rq, res) ==
    [IdleReq EXCEPT !.kind = rq.kind, !.pc = "done", !.sha = rq.sha,
                    !.docPut = rq.docPut, !.res = res, !.sent = rq.sent + 1,
                    !.filePath = IF rq.kind = "delete" THEN rq.filePath ELSE <<>>]

\* the handler returning without an answer
RespondNever(r, res) ==
    req' = [req EXCEPT ![r] = [Answered(req[r], res) EXCEPT !.sent = req[r].sent,
                                                           !.res = NoRes]]

\* res.status(..).json(..) or res.json(..) after an await
Respond(r, res) ==
    req' = [req EXCEPT ![r] = Answered(req[r], res)]

\* a handler that answers before its first await
Answer(r, kind, res) ==
    req' = [req EXCEPT ![r] = Answered([IdleReq EXCEPT !.kind = kind], res)]

\* the catch block answering as the try block does on success
ConvertCatchSuccess(err) == SuccessRes(<<>>)

\* the catch blocks of POST /upload and POST /use-image: lines 231-234 and
\* 252-254 answer githubErrMessage(err); lines 457-460 and 481-483 answer
\* err.response?.data?.message || err.message
ConvertCatch(err) ==
    ErrorRes(500, IF copy = 1 THEN githubErrMessage(err) ELSE err.message)

\* the catch blocks of GET /images and DELETE /images/:filename
PlainCatch(err) == ErrorRes(500, AxiosMessage(err))

\* getFileSha, lines 52-66: the sha of the path, or null (0) when the request
\* fails for any reason (catch { return null })
getFileSha(path, outcome) ==
    IF outcome = "ok" /\ Exists(path) THEN store[path].sha ELSE NoSha

\* What the store answers to PUT contents/path carrying sha (or none): "ok",
\* or the error.  A path that exists is replaced only by a request that
\* carries its current sha; a path that does not exist is created only by a
\* request that carries none.
PutVerdict(path, sha) ==
    IF Exists(path)
    THEN IF sha = store[path].sha THEN "ok"
         ELSE IF sha = NoSha THEN "nosha" ELSE "conflict"
    ELSE IF sha = NoSha THEN "ok" ELSE "conflict"

VerdictErr(v) == IF v = "nosha" THEN Err422 ELSE Err409

\* saveImageToRepo up to its first await, lines 126-129
saveImageToRepo(rq) ==
    LET safe == Sanitize(rq.name)
        filePath == ImagePath(safe)
    IN  [rq EXCEPT !.filePath = filePath,
                   !.content = Base64(rq.buffer),
                   !.imageInfo = [filename |-> safe, path |-> filePath,
                                  rawUrl |-> RawUrl(filePath)],
                   !.pc = "img_sha"]

\* the meta argument of saveDrawingJson, lines 221 and 244
MetaArg(rq) ==
    IF rq.kind = "upload"
    THEN [filename |-> rq.imageInfo.filename, imageUrl |-> rq.imageInfo.rawUrl]
    ELSE [filename |-> rq.name, imageUrl |-> rq.rawUrl]

\* the payload with totalPixels counting the cells of the grid
PayloadCountsCells(pixels, meta, now) ==
    [meta |-> meta @@ [canvasSize |-> CANVAS_SIZE,
                       totalPixels |-> CANVAS_SIZE * CANVAS_SIZE,
                       updatedAt |-> toISOString(now)],
     pixels |-> pixels]

\* the payload of saveDrawingJson, lines 109-117: { ..., ...meta } lets the
\* keys of meta override the ones before it
Payload(pixels, meta, now) ==
    [meta |-> meta @@ [canvasSize |-> CANVAS_SIZE,
                       totalPixels |-> Len(pixels),
                       updatedAt |-> toISOString(now)],
     pixels |-> pixels]

\* saveDrawingJson appending the new pixels to the ones of the document
\* published before
saveDrawingJsonMerging(rq, pixels) ==
    LET old == IF store[DRAWING_FILE] # NoFile
               THEN JSONParse(FromBase64(store[DRAWING_FILE].content)).pixels
               ELSE <<>>
        payload == Payload(old \o pixels, MetaArg(rq), Now)
    IN  [rq EXCEPT !.pixels = pixels,
                   !.payload = payload,
                   !.filePath = DRAWING_FILE,
                   !.content = Base64(JSONStringify(payload)),
                   !.pc = "doc_sha"]

\* saveDrawingJson up to its first await, lines 108-122
saveDrawingJson(rq, pixels) ==
    LET payload == Payload(pixels, MetaArg(rq), Now)
    IN  [rq EXCEPT !.pixels = pixels,
                   !.payload = payload,
                   !.filePath = DRAWING_FILE,
                   !.content = Base64(JSONStringify(payload)),
                   !.pc = "doc_sha"]


---------------------------------------------------------------------------
\* POST /upload, lines 195-235.

\* the handler up to its first await: validation, checkConfig, then the
\* request of verifyGitHubAccess is sent
UploadBegin(r) ==
    /\ Arrives(r)
    /\ \E file \in BOOLEAN, name \in Filenames, buffer \in UploadBuffers :
         IF ~file
         THEN Answer(r, "upload", ErrorRes(400, <<"No image provided">>))
         ELSE IF checkConfig # <<>>
         THEN Answer(r, "upload", ErrorRes(500, <<"Server not configured.">> \o checkConfig))
         ELSE req' = [req EXCEPT ![r] = [IdleReq EXCEPT !.kind = "upload",
                                            !.pc = "verify", !.name = name,
                                            !.buffer = buffer]]
    /\ UNCHANGED <<copy, token, repo, clock, elapsed, store, agentVars, call>>

\* verifyGitHubAccess returns or throws, lines 207-215
VerifyReturn(r) ==
    /\ req[r].pc = "verify"
    /\ \/ /\ ApiReachable
          /\ req' = [req EXCEPT ![r] = saveImageToRepo(req[r])]
       \/ \E err \in ApiFailures \cup {Err404} :
             Respond(r, ErrorRes(500, githubErrMessage(err)))
    /\ Elapse
    /\ UNCHANGED <<copy, token, repo, store, agentVars, call>>

\* AfterSha without line 271: DELETE goes on to axios.delete whatever sha is
AfterShaNoTest(rq, sha) ==
    CASE rq.pc = "img_sha" -> [rq EXCEPT !.sha = sha, !.pc = "img_put"]
      [] rq.pc = "doc_sha" -> [rq EXCEPT !.sha = sha, !.pc = "doc_put"]
      [] OTHER -> [rq EXCEPT !.sha = sha, !.pc = "del_call"]

\* where a handler goes when getFileSha has returned sha
AfterSha(rq, sha) ==
    CASE rq.pc = "img_sha" -> [rq EXCEPT !.sha = sha, !.pc = "img_put"]
      [] rq.pc = "doc_sha" -> [rq EXCEPT !.sha = sha, !.pc = "doc_put"]
      [] OTHER ->
            IF sha = NoSha
            THEN Answered([rq EXCEPT !.sha = sha], ErrorRes(404, <<"File not found">>))
            ELSE [rq EXCEPT !.sha = sha, !.pc = "del_call"]

\* getFileSha returns (writeFileToGitHub line 69, DELETE line 270); the PUT or
\* DELETE that follows is sent in the same turn
GetFileShaReturn(r) ==
    /\ req[r].pc \in {"img_sha", "doc_sha", "del_sha"}
    /\ \E outcome \in {"ok", "fail"} :
         /\ outcome = "ok" => ApiReachable
         /\ req' = [req EXCEPT ![r] = AfterSha(req[r], getFileSha(req[r].filePath, outcome))]
    /\ Elapse
    /\ UNCHANGED <<copy, token, repo, store, agentVars, call>>

\* where a convert handler goes when the PUT of writeFileToGitHub succeeded
AfterPut(rq) ==
    IF rq.pc = "img_put"
    THEN [rq EXCEPT !.pc = "encode"]
    ELSE Answered([rq EXCEPT !.docPut = "accepted"],
                  SuccessRes([totalPixels |-> Len(rq.pixels),
                              canvasSize |-> CANVAS_SIZE,
                              image |-> rq.imageInfo]))

\* PutFailed with the error dropped: the handler goes on to answer success
PutFailedSwallowed(rq, verdict, err) ==
    Answered([rq EXCEPT !.docPut = IF rq.pc = "doc_put" THEN verdict ELSE "none"],
             SuccessRes([totalPixels |-> Len(rq.pixels),
                         canvasSize |-> CANVAS_SIZE,
                         image |-> rq.imageInfo]))

\* where a convert handler goes when writeFileToGitHub throws err
PutFailed(rq, verdict, err) ==
    Answered([rq EXCEPT !.docPut = IF rq.pc = "doc_put" THEN verdict ELSE "none"],
             ConvertCatch(err))

\* the PUT of writeFileToGitHub is processed by the store and returns,
\* lines 70-84
PutReturn(r) ==
    /\ req[r].pc \in {"img_put", "doc_put"}
    /\ LET rq == req[r]
           verdict == PutVerdict(rq.filePath, rq.sha)
       IN  \/ /\ ApiReachable
              /\ verdict = "ok"
              /\ store' = [store EXCEPT ![rq.filePath] = StoredFile(rq.content)]
              /\ req' = [req EXCEPT ![r] = AfterPut(rq)]
           \/ /\ ApiReachable
              /\ verdict # "ok"
              /\ req' = [req EXCEPT ![r] = PutFailed(rq, verdict, VerdictErr(verdict))]
              /\ UNCHANGED store
           \/ /\ \E err \in ApiFailures :
                    req' = [req EXCEPT ![r] = PutFailed(rq, "failed", err)]
              /\ UNCHANGED store
    /\ Elapse
    /\ UNCHANGED <<copy, token, repo, agentVars, call>>

\* imageToPixels returns or throws (lines 218, 243); on success saveDrawingJson
\* builds the payload and sends the request of getFileSha
EncodeReturn(r) ==
    /\ req[r].pc = "encode"
    /\ IF Decodable(req[r].buffer)
       THEN /\ req' = [req EXCEPT ![r] = saveDrawingJson(req[r], imageToPixels(req[r].buffer))]
            /\ clock' = Now
            /\ elapsed' = FALSE
       ELSE /\ Respond(r, ConvertCatch(ErrDecode))
            /\ UNCHANGED <<clock, elapsed>>
    /\ UNCHANGED <<copy, token, repo, store, agentVars, call>>

\* POST /upload as the second copy defines it, lines 435-461: validation, the
\* test of the two environment variables, then saveImageToRepo at once; there
\* is no call of verifyGitHubAccess
UploadSecondBegin(r) ==
    /\ Arrives(r)
    /\ \E file \in BOOLEAN, name \in Filenames, buffer \in UploadBuffers :
         IF ~file
         THEN Answer(r, "upload", ErrorRes(400, <<"No image provided">>))
         ELSE IF ~token \/ ~repo
         THEN Answer(r, "upload", ErrorRes(500, <<"Missing env vars">>))
         ELSE req' = [req EXCEPT ![r] =
                        saveImageToRepo([IdleReq EXCEPT !.kind = "upload",
                                            !.name = name, !.buffer = buffer])]
    /\ UNCHANGED <<copy, token, repo, clock, elapsed, store, agentVars, call>>

---------------------------------------------------------------------------
\* POST /use-image, lines 238-255.

UseImageBegin(r) ==
    /\ Arrives(r)
    /\ \E rawUrl \in RawUrls \cup {NoUrl} :
         IF rawUrl = NoUrl
         THEN Answer(r, "use-image", ErrorRes(400, <<"rawUrl required">>))
         ELSE req' = [req EXCEPT ![r] = [IdleReq EXCEPT !.kind = "use-image",
                                            !.pc = "fetch", !.name = <<"z">>,
                                            !.rawUrl = rawUrl]]
    /\ UNCHANGED <<copy, token, repo, clock, elapsed, store, agentVars, call>>

\* what the address serves: the archived file, the outside image, or nothing
Served(rawUrl) ==
    IF rawUrl = ExternalUrl THEN ExternalBuffer
    ELSE IF Exists(rawUrl[2]) THEN FromBase64(store[rawUrl[2]].content)
    ELSE "none"

\* the fetched image archived again before it is encoded
AfterFetchArchiving(rq, buffer) == saveImageToRepo([rq EXCEPT !.buffer = buffer])

\* lines 242-243: the bytes fetched are handed to imageToPixels
AfterFetch(rq, buffer) == [rq EXCEPT !.buffer = buffer, !.pc = "encode"]

\* axios.get(rawUrl) returns or throws, line 242
FetchImageReturn(r) ==
    /\ req[r].pc = "fetch"
    /\ \/ /\ Served(req[r].rawUrl) # "none"
          /\ req' = [req EXCEPT ![r] = AfterFetch(req[r], Served(req[r].rawUrl))]
       \/ /\ Served(req[r].rawUrl) = "none"
          /\ Respond(r, ConvertCatch(Err404))
       \/ Respond(r, ConvertCatch(ErrNet))
    /\ Elapse
    /\ UNCHANGED <<copy, token, repo, store, agentVars, call>>

---------------------------------------------------------------------------
\* GET /images, lines 258-264, and listImages, lines 138-158.

ListBegin(r) ==
    /\ Arrives(r)
    /\ req' = [req EXCEPT ![r] = [IdleReq EXCEPT !.kind = "list", !.pc = "list"]]
    /\ UNCHANGED <<copy, token, repo, clock, elapsed, store, agentVars, call>>

\* the files of the folder, as the API lists them
FolderFiles == { [path |-> p, sha |-> store[p].sha] : p \in {q \in ImagePaths : Exists(q)} }

\* listImages: the files, or [] when the request fails for any reason
listImages(outcome) == IF outcome = "ok" THEN FolderFiles ELSE {}

ListReturn(r) ==
    /\ req[r].pc = "list"
    /\ \E outcome \in {"ok", "fail"} :
         /\ outcome = "ok" => ApiReachable
         /\ Respond(r, ImagesRes(listImages(outcome)))
    /\ Elapse
    /\ UNCHANGED <<copy, token, repo, store, agentVars, call>>

---------------------------------------------------------------------------
\* DELETE /images/:filename, lines 267-283.

DeleteBegin(r) ==
    /\ Arrives(r)
    /\ \E filename \in DeleteNames :
         req' = [req EXCEPT ![r] = [IdleReq EXCEPT !.kind = "delete", !.pc = "del_sha",
                                        !.name = filename,
                                        !.filePath = ImagePath(filename)]]
    /\ UNCHANGED <<copy, token, repo, clock, elapsed, store, agentVars, call>>

\* axios.delete is processed by the store and returns, lines 272-282
DeleteReturn(r) ==
    /\ req[r].pc = "del_call"
    /\ LET rq == req[r] IN
       \/ /\ ApiReachable
          /\ Exists(rq.filePath) /\ store[rq.filePath].sha = rq.sha
          /\ store' = [store EXCEPT ![rq.filePath] = NoFile]
          /\ Respond(r, SuccessRes([deleted |-> rq.name]))
       \/ /\ ApiReachable
          /\ ~(Exists(rq.filePath) /\ store[rq.filePath].sha = rq.sha)
          /\ Respond(r, PlainCatch(IF Exists(rq.filePath) THEN Err409 ELSE Err404))
          /\ UNCHANGED store
       \/ /\ \E err \in ApiFailures : Respond(r, PlainCatch(err))
          /\ UNCHANGED store
    /\ Elapse
    /\ UNCHANGED <<copy, token, repo, agentVars, call>>

---------------------------------------------------------------------------
\* GET /config-check, lines 174-192, and GET /status, lines 285-290 (515 in
\* the second copy, which has no /config-check).

\* the handler up to its first await: checkConfig, then the request of
\* verifyGitHubAccess is sent
ConfigCheckBegin(r) ==
    /\ Arrives(r)
    /\ IF checkConfig # <<>>
       THEN Answer(r, "config-check", ConfigRes(FALSE, checkConfig))
       ELSE req' = [req EXCEPT ![r] = [IdleReq EXCEPT !.kind = "config-check",
                                          !.pc = "cc_verify"]]
    /\ UNCHANGED <<copy, token, repo, clock, elapsed, store, agentVars, call>>

\* verifyGitHubAccess returns or throws, lines 179-191
ConfigCheckReturn(r) ==
    /\ req[r].pc = "cc_verify"
    /\ \/ /\ ApiReachable
          /\ Respond(r, ConfigRes(TRUE, <<>>))
       \/ \E err \in ApiFailures \cup {Err404} :
             Respond(r, ConfigRes(FALSE, githubErrMessage(err)))
    /\ Elapse
    /\ UNCHANGED <<copy, token, repo, store, agentVars, call>>

\* GET /status answers at once
Status(r) ==
    /\ Arrives(r)
    /\ Answer(r, "status",
              StatusRes(IF copy = 1
                        THEN [status |-> "running", configured |-> checkConfig = <<>>,
                              repo |-> repo, canvasSize |-> CANVAS_SIZE]
                        ELSE [status |-> "running",
                              repo |-> repo, canvasSize |-> CANVAS_SIZE]))
    /\ UNCHANGED <<copy, token, repo, clock, elapsed, store, agentVars, call>>

---------------------------------------------------------------------------
\* src/Draw.lua: what RAW_JSON_URL may serve.

\* pixel i of the drawing numbered k
AgentPixel(k, i) == [x |-> i, y |-> k, r |-> k, g |-> i, b |-> 0]

\* a body that decodes to a table with a pixels array; updatedAt is Nil when
\* meta carries none
Drawing(k, updatedAt, n) ==
    [valid |-> TRUE, table |-> TRUE, hasPixels |-> TRUE, updatedAt |-> updatedAt,
     pixels |-> [i \in 1..n |-> AgentPixel(k, i)]]

\* bodies fetchAndDraw rejects: not JSON, JSON that is no table, a table
\* without pixels
NotJson  == [valid |-> FALSE, table |-> FALSE, hasPixels |-> FALSE,
             updatedAt |-> Nil, pixels |-> <<>>]
NotTable == [valid |-> TRUE, table |-> FALSE, hasPixels |-> FALSE,
             updatedAt |-> Nil, pixels |-> <<>>]
NoPixels == [valid |-> TRUE, table |-> TRUE, hasPixels |-> FALSE,
             updatedAt |-> "t9", pixels |-> <<>>]

WellFormed(body) == body.valid /\ body.table /\ body.hasPixels

Drawings ==
    { Drawing(1, "t1", BATCH_SIZE + 1),
      Drawing(2, "t2", 0),
      Drawing(3, Nil, BATCH_SIZE),
      Drawing(4, ToString(BATCH_SIZE), 2 * BATCH_SIZE + 1) }
Bodies == Drawings \cup {NotJson, NotTable, NoPixels}

\* tostring(meta.updatedAt or #pixels), line 313
Stamp(body) ==
    IF body.updatedAt # Nil THEN body.updatedAt ELSE ToString(Len(body.pixels))

Ceil(n, d) == (n + d - 1) \div d

---------------------------------------------------------------------------
\* Pixel sending, lines 183-202.

\* lines 184-192: the table sendBulk builds from a batch
Formatted(batch) ==
    [i \in 1..Len(batch) |->
        [X |-> batch[i].x, Y |-> batch[i].y,
         Color |-> <<batch[i].r, batch[i].g, batch[i].b>>, Layer |-> TARGET_LAYER]]

\* the arguments of the FireServer call of line 195 and of line 199
Arguments(batch, order) ==
    IF order = "layer-first"
    THEN <<TARGET_LAYER, Formatted(batch)>>
    ELSE <<Formatted(batch), TARGET_LAYER>>

\* one ReplicateCanvas:FireServer inside pcall: its argument order and
\* whether the call returned
FireServer(order, ok) == [order |-> order, ok |-> ok]

\* sendBulk firing both argument orders whatever the first call did
sendBulkBothOrders(batch) ==
    <<FireServer("layer-first", fireThrows = 0),
      FireServer("records-first", fireThrows <= 1)>>

\* sendBulk(batch), lines 183-202: the FireServer calls it makes; the second
\* order is tried only if the first call threw
sendBulk(batch) ==
    LET first == FireServer("layer-first", fireThrows = 0)
    IN  IF first.ok
        THEN <<first>>
        ELSE <<first, FireServer("records-first", fireThrows = 1)>>

---------------------------------------------------------------------------
\* The draw state, lines 208-277.

\* stopDrawing without lines 213-216: only the flag is cleared
stopDrawingFlagOnly ==
    [conns |-> conns, drawConnection |-> drawConnection, isDrawing |-> FALSE]

\* stopDrawing, lines 212-218: the connections left, drawConnection, isDrawing
stopDrawing ==
    [conns |-> [c \in DOMAIN conns \ {drawConnection} |-> conns[c]],
     drawConnection |-> NoConnection,
     isDrawing |-> FALSE]

\* the loop body of lines 259-263, run n times at most
RECURSIVE BuildBatch(_, _, _, _)
BuildBatch(pixels, index, total, n) ==
    IF n = 0 \/ index > total
    THEN [batch |-> <<>>, index |-> index]
    ELSE LET rest == BuildBatch(pixels, index + 1, total, n - 1)
         IN  [batch |-> <<pixels[index]>> \o rest.batch, index |-> rest.index]

\* the loop without index += 1 of line 262
NextBatchSameIndex(pixels, index, total) ==
    [batch |-> BuildBatch(pixels, index, total, BATCH_SIZE).batch, index |-> index]

\* the loop running once too often
NextBatchOneMore(pixels, index, total) ==
    BuildBatch(pixels, index, total, BATCH_SIZE + 1)

\* for _ = 1, BATCH_SIZE do ... end, lines 258-263: the batch and the index
\* after it
NextBatch(pixels, index, total) == BuildBatch(pixels, index, total, BATCH_SIZE)

\* startDrawing(pixels, meta), lines 220-277: stopDrawing, then a new
\* Heartbeat connection whose closure holds pixels, total and index
startDrawing(body) ==
    /\ conns' = stopDrawing.conns @@
                 (nextConn :> [pixels |-> body.pixels, total |-> Len(body.pixels),
                               index |-> 1, render |-> Len(started) + 1])
    /\ drawConnection' = nextConn
    /\ nextConn' = nextConn + 1
    /\ isDrawing' = TRUE
    /\ started' = Append(started, [stamp |-> Stamp(body), pixels |-> body.pixels])
    /\ ticks' = 0

\* lines 247-251 scheduling the callback twice
ScheduleRefreshTwice(k) ==
    pendingRefresh' = IF hasUpdateBoard THEN pendingRefresh \o <<k, k>> ELSE pendingRefresh

\* lines 247-251: if UpdateBoard then task.delay(0.5, ...) end, at the end of
\* the drawing started k-th
ScheduleRefresh(k) ==
    pendingRefresh' = IF hasUpdateBoard THEN Append(pendingRefresh, k) ELSE pendingRefresh

\* Finish without line 242: isDrawing is left true
FinishKeepsFlag ==
    /\ drawConnection # NoConnection
    /\ conns' = [c \in DOMAIN conns \ {drawConnection} |-> conns[c]]
    /\ drawConnection' = NoConnection
    /\ isDrawing' = isDrawing
    /\ ScheduleRefresh(conns[drawConnection].render)
    /\ UNCHANGED canvasLog

\* the branch of the Heartbeat callback that ends the drawing, lines 238-255
Finish ==
    /\ drawConnection # NoConnection
    /\ conns' = [c \in DOMAIN conns \ {drawConnection} |-> conns[c]]
    /\ drawConnection' = NoConnection
    /\ isDrawing' = FALSE
    /\ ScheduleRefresh(conns[drawConnection].render)
    /\ UNCHANGED canvasLog

\* the branch of the Heartbeat callback that sends one batch, lines 257-265
SendBatch(c) ==
    LET cl == conns[c]
        built == NextBatch(cl.pixels, cl.index, cl.total)
    IN  /\ conns' = [conns EXCEPT ![c].index = built.index]
        /\ canvasLog' = Append(canvasLog, [render |-> cl.render, batch |-> built.batch,
                                           calls |-> sendBulk(built.batch)])
        /\ UNCHANGED <<drawConnection, isDrawing, pendingRefresh>>

\* one run of the callback connected at line 237
Heartbeat(c) ==
    /\ c \in DOMAIN conns
    /\ IF conns[c].index > conns[c].total THEN Finish ELSE SendBatch(c)
    /\ ticks' = ticks + 1
    /\ UNCHANGED <<remote, published, lastTimestamp, nextConn, pollPc, started,
                   lastFetch, fetchStarts, hasUpdateBoard, fireThrows,
                   refreshed, refreshThrew, serverVars, call>>

\* the callback of task.delay(0.5, ...), lines 248-250: UpdateBoard:FireServer
\* inside pcall; the call returns or throws, and pcall drops what it throws
RefreshGallery ==
    /\ pendingRefresh # <<>>
    /\ pendingRefresh' = Tail(pendingRefresh)
    /\ refreshed' = Append(refreshed, Head(pendingRefresh))
    /\ \E threw \in BOOLEAN : refreshThrew' = threw
    /\ UNCHANGED <<remote, published, lastTimestamp, isDrawing, drawConnection,
                   conns, nextConn, pollPc, canvasLog, started, lastFetch, ticks,
                   fetchStarts, hasUpdateBoard, fireThrows,
                   serverVars, call>>

---------------------------------------------------------------------------
\* fetchAndDraw, lines 283-330, and the polling thread, lines 336-355.

\* fetchAndDraw up to HttpService:GetAsync, which yields
BeginFetch ==
    /\ pollPc' = "fetching"
    /\ fetchStarts' = IF isDrawing THEN fetchStarts + 1 ELSE fetchStarts

\* line 347: the first fetchAndDraw, after task.wait(2)
BootFetch ==
    /\ pollPc = "boot"
    /\ BeginFetch
    /\ UNCHANGED <<remote, published, lastTimestamp, isDrawing, drawConnection,
                   conns, nextConn, canvasLog, started, lastFetch, ticks,
                   pendingRefresh, hasUpdateBoard, fireThrows,
                   refreshed, refreshThrew, serverVars, call>>

\* the polling loop without its test of isDrawing
PollGuardAlways == TRUE
\* the polling loop with its test inverted
PollGuardInverted == isDrawing

\* line 351: if not isDrawing
PollGuard == ~isDrawing

\* lines 349-354: task.wait(POLL_INTERVAL) returns
PollWake ==
    /\ pollPc = "wait"
    /\ IF PollGuard THEN BeginFetch ELSE UNCHANGED <<pollPc, fetchStarts>>
    /\ UNCHANGED <<remote, published, lastTimestamp, isDrawing, drawConnection,
                   conns, nextConn, canvasLog, started, lastFetch, ticks,
                   pendingRefresh, hasUpdateBoard, fireThrows,
                   refreshed, refreshThrew, serverVars, call>>

\* GetAsync throws, lines 293-297
FetchFail ==
    /\ pollPc = "fetching"
    /\ pollPc' = "wait"
    /\ lastFetch' = "http-failed"
    /\ UNCHANGED <<remote, published, lastTimestamp, isDrawing, drawConnection,
                   conns, nextConn, canvasLog, started, ticks, fetchStarts,
                   pendingRefresh, hasUpdateBoard, fireThrows,
                   refreshed, refreshThrew, serverVars, call>>

\* line 303 with only its first test
RejectedParseOnly(body) == ~body.valid

\* line 303: not parseOk or type(data) ~= "table" or not data.pixels
Rejected(body) == ~body.valid \/ ~body.table \/ ~body.hasPixels

\* line 314 comparing updatedAt itself, without the fallback of line 313
SameStampRaw(body) == body.updatedAt = lastTimestamp

\* line 314: stamp == lastTimestamp
SameStamp(body) == Stamp(body) = lastTimestamp

\* line 318 left out
RecordStampNever(body) == lastTimestamp' = lastTimestamp

\* line 318: lastTimestamp = stamp
RecordStamp(body) == lastTimestamp' = Stamp(body)

\* GetAsync returns the body served now; lines 299-329 follow in the same turn
FetchOk ==
    /\ pollPc = "fetching"
    /\ pollPc' = "wait"
    /\ IF Rejected(remote)
       THEN /\ lastFetch' = "bad-json"
            /\ UNCHANGED <<lastTimestamp, isDrawing, drawConnection, conns,
                           nextConn, started, ticks>>
       ELSE IF SameStamp(remote)
       THEN /\ lastFetch' = "unchanged"
            /\ UNCHANGED <<lastTimestamp, isDrawing, drawConnection, conns,
                           nextConn, started, ticks>>
       ELSE /\ lastFetch' = "started"
            /\ RecordStamp(remote)
            /\ startDrawing(remote)
    /\ UNCHANGED <<remote, published, canvasLog, fetchStarts, pendingRefresh,
                   hasUpdateBoard, fireThrows,
                   refreshed, refreshThrew, serverVars, call>>

\* the served document is replaced (a publish of the service, or anything else
\* that changes the file)
Publish ==
    /\ published < MaxPublish
    /\ \E body \in Bodies \ {remote} : remote' = body
    /\ published' = published + 1
    /\ UNCHANGED <<lastTimestamp, isDrawing, drawConnection, conns, nextConn,
                   pollPc, canvasLog, started, lastFetch, ticks, fetchStarts,
                   pendingRefresh, hasUpdateBoard, fireThrows,
                   refreshed, refreshThrew, serverVars, call>>

---------------------------------------------------------------------------
\* Specifications.

\* no function has been applied
NoCall == [fn |-> "none", arg |-> <<>>, out |-> <<>>, again |-> <<>>]

AgentAtRest ==
    /\ call = NoCall
    /\ remote = NotJson
    /\ published = 0
    /\ lastTimestamp = ""
    /\ isDrawing = FALSE
    /\ drawConnection = NoConnection
    /\ conns = <<>>
    /\ nextConn = 1
    /\ pollPc = "boot"
    /\ canvasLog = <<>>
    /\ started = <<>>
    /\ lastFetch = "none"
    /\ ticks = 0
    /\ fetchStarts = 0
    /\ pendingRefresh = <<>>
    /\ refreshed = <<>>
    /\ refreshThrew = FALSE
    /\ hasUpdateBoard = FALSE
    /\ fireThrows = 0

ServerAtRest ==
    /\ copy = 1
    /\ token = TRUE
    /\ repo = TRUE
    /\ clock = 0
    /\ elapsed = FALSE
    /\ store = EmptyStore
    /\ req = [r \in Reqs |-> IdleReq]

\* lines 208-210, and the state of the script when the polling thread starts
AgentInit ==
    /\ call = NoCall
    /\ remote \in Bodies
    /\ published = 0
    /\ lastTimestamp = ""
    /\ isDrawing = FALSE
    /\ drawConnection = NoConnection
    /\ conns = <<>>
    /\ nextConn = 1
    /\ pollPc = "boot"
    /\ canvasLog = <<>>
    /\ started = <<>>
    /\ lastFetch = "none"
    /\ ticks = 0
    /\ fetchStarts = 0
    /\ pendingRefresh = <<>>
    /\ refreshed = <<>>
    /\ refreshThrew = FALSE
    /\ hasUpdateBoard \in BOOLEAN
    /\ fireThrows \in 0..2

Init == ServerInit /\ AgentAtRest

Next ==
    \/ \E r \in Reqs : UploadBegin(r)
    \/ \E r \in Reqs : VerifyReturn(r)
    \/ \E r \in Reqs : GetFileShaReturn(r)
    \/ \E r \in Reqs : PutReturn(r)
    \/ \E r \in Reqs : EncodeReturn(r)
    \/ \E r \in Reqs : UseImageBegin(r)
    \/ \E r \in Reqs : FetchImageReturn(r)
    \/ \E r \in Reqs : ListBegin(r)
    \/ \E r \in Reqs : ListReturn(r)
    \/ \E r \in Reqs : DeleteBegin(r)
    \/ \E r \in Reqs : DeleteReturn(r)
    \/ \E r \in Reqs : ConfigCheckBegin(r)
    \/ \E r \in Reqs : ConfigCheckReturn(r)
    \/ \E r \in Reqs : Status(r)

Spec == Init /\ [][Next]_vars

\* the second copy of the service at start
SecondInit ==
    /\ copy = 2
    /\ token \in BOOLEAN
    /\ repo \in BOOLEAN
    /\ clock = 0
    /\ elapsed = FALSE
    /\ store \in {EmptyStore, SeedStore}
    /\ req = [r \in Reqs |-> IdleReq]
    /\ AgentAtRest

\* the routes of the second copy, lines 435-513
SecondNext ==
    \/ \E r \in Reqs : UploadSecondBegin(r)
    \/ \E r \in Reqs : GetFileShaReturn(r)
    \/ \E r \in Reqs : PutReturn(r)
    \/ \E r \in Reqs : EncodeReturn(r)
    \/ \E r \in Reqs : UseImageBegin(r)
    \/ \E r \in Reqs : FetchImageReturn(r)
    \/ \E r \in Reqs : ListBegin(r)
    \/ \E r \in Reqs : ListReturn(r)
    \/ \E r \in Reqs : DeleteBegin(r)
    \/ \E r \in Reqs : DeleteReturn(r)
    \/ \E r \in Reqs : Status(r)

SecondSpec == SecondInit /\ [][SecondNext]_vars

AgentStart == ServerAtRest /\ AgentInit

AgentNext ==
    \/ BootFetch
    \/ PollWake
    \/ FetchFail
    \/ FetchOk
    \/ \E c \in DOMAIN conns : Heartbeat(c)
    \/ RefreshGallery
    \/ Publish

AgentSpec == AgentStart /\ [][AgentNext]_vars

\* The engine runs every connected Heartbeat callback each frame and resumes
\* a thread whose task.wait has elapsed; requests that keep being made
\* eventually succeed.
AgentLive ==
    /\ AgentStart
    /\ [][AgentNext]_vars
    /\ WF_vars(\E c \in DOMAIN conns : Heartbeat(c))
    /\ WF_vars(BootFetch)
    /\ WF_vars(PollWake)
    /\ WF_vars(FetchFail \/ FetchOk)
    /\ SF_vars(FetchOk)


---------------------------------------------------------------------------
\* The pure functions applied on their own.

\* the characters filenames are drawn from: upper and lower case, a digit,
\* two kinds of whitespace, a character that is stripped, and the three
\* punctuation marks that are kept
NameChars == {"A", "b", "1", " ", "\t", "!", ".", "_", "-"}
MyPhoto == <<"M", "y", " ", "P", "h", "o", "t", "o", "!", " ",
             "(", "1", ")", ".", "P", "N", "G">>
Names == UNION { [1..n -> NameChars] : n \in 0..MaxNameLen } \cup {MyPhoto}

\* the alpha values of a cell: below the threshold, the threshold, opaque
Alphas == {ALPHA_MIN - 1, ALPHA_MIN, 255}
Tints == {0, 1}
Cells == 0..(CANVAS_SIZE * CANVAS_SIZE - 1)

\* { data, info } as sharp returns it: cell k has the alpha alpha[k] and a
\* colour of its own
RasterOf(alpha, tint) ==
    [data |-> [j \in 1..(CANVAS_SIZE * CANVAS_SIZE * 4) |->
                  LET k == (j - 1) \div 4
                  IN  <<(17 * k + tint) % 256, (5 * k + 3) % 256,
                        (255 - k - tint) % 256, alpha[k]>>[((j - 1) % 4) + 1]],
     info |-> [width |-> CANVAS_SIZE, height |-> CANVAS_SIZE]]

\* line 127 applied to a filename
ApplySanitize ==
    /\ call.fn = "none"
    /\ \E name \in Names :
         call' = [fn |-> "sanitize", arg |-> name, out |-> Sanitize(name),
                  again |-> <<>>]
    /\ UNCHANGED <<serverVars, agentVars>>

\* line 127 applied to its own result (the archived name uploaded again)
ApplySanitizeAgain ==
    /\ call.fn = "sanitize"
    /\ call' = [call EXCEPT !.fn = "sanitize-again", !.again = Sanitize(call.out)]
    /\ UNCHANGED <<serverVars, agentVars>>

\* lines 95-104 applied to a raster
ApplyImageToPixels ==
    /\ call.fn = "none"
    /\ \E alpha \in [Cells -> Alphas], tint \in Tints :
         LET ras == RasterOf(alpha, tint)
         IN  call' = [fn |-> "imageToPixels", arg |-> ras, out |-> PixelsOf(ras),
                      again |-> <<>>]
    /\ UNCHANGED <<serverVars, agentVars>>

PureInit == ServerAtRest /\ AgentAtRest

PureNext ==
    \/ ApplySanitize
    \/ ApplySanitizeAgain
    \/ ApplyImageToPixels

PureSpec == PureInit /\ [][PureNext]_vars

---------------------------------------------------------------------------
\* Helpers of the properties.

Last(s) == s[Len(s)]

RECURSIVE Flatten(_)
Flatten(ss) == IF ss = <<>> THEN <<>> ELSE Head(ss) \o Flatten(Tail(ss))

\* every record sent to the canvas, in order
SentRecords == Flatten([i \in 1..Len(canvasLog) |-> canvasLog[i].batch])
\* every record of every drawing handed to startDrawing, in order
StartedRecords == Flatten([i \in 1..Len(started) |-> started[i].pixels])
\* the same without the last drawing
EarlierRecords == Flatten([i \in 1..(Len(started) - 1) |-> started[i].pixels])

IsPrefix(s, t) == Len(s) <= Len(t) /\ SubSeq(t, 1, Len(s)) = s

\* the batches sent for the drawing started last
BatchesOfLast == Cardinality({i \in 1..Len(canvasLog) : canvasLog[i].render = Len(started)})

Convert(r) == req[r].kind \in {"upload", "use-image"}
DocPutPending(r) == req[r].pc = "doc_put"
CurrentSha == store[DRAWING_FILE].sha
\* the document published at drawing.json
StoredDoc == JSONParse(FromBase64(store[DRAWING_FILE].content))

---------------------------------------------------------------------------
\* C1: a write of drawing.json that carries a sha other than the current one
\* (stale, or none while the file exists) leaves the store as it is and the
\* request answers with an error; and once one of two requests that both hold
\* a sha has its write accepted, the sha the other holds is stale.
C1_StaleWriteRejected ==
    /\ [][\A r \in Reqs :
            (DocPutPending(r) /\ req'[r] # req[r] /\ req[r].sha # CurrentSha)
            => /\ store' = store
               /\ req'[r].pc = "done"
               /\ req'[r].res.type = "error"
               /\ req'[r].res.status = 500]_vars
    /\ [][\A r1, r2 \in Reqs :
            (r1 # r2 /\ DocPutPending(r1) /\ DocPutPending(r2) /\ store'[DRAWING_FILE] # store[DRAWING_FILE]
             /\ req'[r1] # req[r1])
            => req'[r2].sha # store'[DRAWING_FILE].sha]_vars

\* two convert requests read the same sha; one was accepted, the other met a
\* conflict and answered 500
C1_Witness ==
    \E r1, r2 \in Reqs :
        /\ r1 # r2 /\ Convert(r1) /\ Convert(r2)
        /\ req[r1].pc = "done" /\ req[r2].pc = "done"
        /\ req[r1].docPut = "accepted" /\ req[r1].res.type = "success"
        /\ req[r2].docPut = "conflict" /\ req[r2].res.type = "error"
        /\ req[r2].res.error = Err409.message
        /\ req[r1].sha = req[r2].sha /\ req[r1].sha # NoSha

\* C2: no two consecutive published documents carry the same updatedAt.
C2_StampChangesOnEveryPublish ==
    [][(Exists(DRAWING_FILE) /\ store'[DRAWING_FILE] # store[DRAWING_FILE])
       => StoredDoc'.meta.updatedAt # StoredDoc.meta.updatedAt]_vars

\* the request was answered after it called the store, or would have had to
\* (POST /use-image reaches the store only once the image is fetched and
\* encoded)
TouchedStore(r) ==
    /\ req[r].pc = "done"
    /\ req[r].kind \in {"upload", "use-image", "list", "delete"}
    /\ req[r].res.status # 400
    /\ req[r].kind = "use-image" => req[r].docPut # "none"

\* C10: without a credential or a repository name, every store-touching
\* endpoint that received valid input answers with the configuration error
\* that names what is missing.
C10_ConfigErrorEverywhere ==
    \A r \in Reqs :
        (checkConfig # <<>> /\ TouchedStore(r))
        => /\ req[r].res.type = "error"
           /\ req[r].res.error = <<"Server not configured.">> \o checkConfig

---------------------------------------------------------------------------
\* C3 as claimed: while a drawing is in progress lastTimestamp holds the stamp
\* of the drawing rendered before it.
C3_StampAfterLastBatch ==
    isDrawing =>
        lastTimestamp = (IF Len(started) <= 1 THEN ""
                         ELSE started[Len(started) - 1].stamp)

\* C3, amended: lastTimestamp is set when the change is detected, before the
\* first batch: it always holds the stamp of the drawing started last, also
\* while that drawing is in progress.
C3_StampSetAtStart ==
    lastTimestamp = (IF started = <<>> THEN "" ELSE Last(started).stamp)

\* a second drawing has started, none of its batches is sent, and
\* lastTimestamp already holds its stamp
C3_Witness ==
    /\ isDrawing
    /\ Len(started) >= 2
    /\ BatchesOfLast = 0
    /\ Last(started).pixels # <<>>
    /\ lastTimestamp = Last(started).stamp
    /\ lastTimestamp # started[Len(started) - 1].stamp

\* C4: no fetch starts while a drawing is in progress, no fetch is in flight
\* while one is in progress, and at most one Heartbeat connection is live.
C4_PollSuppressed ==
    /\ fetchStarts = 0
    /\ pollPc = "fetching" => ~isDrawing
    /\ Cardinality(DOMAIN conns) <= 1

\* a drawing is in progress while a document with another stamp is served
C4_Witness ==
    /\ isDrawing
    /\ pollPc = "wait"
    /\ published > 0
    /\ WellFormed(remote)
    /\ Stamp(remote) # lastTimestamp

\* C5 as claimed: a finished drawing took exactly ceil(n / BATCH_SIZE)
\* Heartbeat callbacks.
C5_CeilCallbacks ==
    (~isDrawing /\ started # <<>>)
    => ticks = Ceil(Len(Last(started).pixels), BATCH_SIZE)

\* C5, amended: exactly ceil(n / BATCH_SIZE) callbacks send a batch, and one
\* more callback, which sends nothing, ends the drawing: ceil(n / BATCH_SIZE)
\* + 1 callbacks from start to idle, for every n >= 0.
C5_CeilBatchesPlusOne ==
    started # <<>> =>
        LET n == Len(Last(started).pixels) IN
        IF isDrawing
        THEN ticks = BatchesOfLast /\ ticks <= Ceil(n, BATCH_SIZE)
        ELSE /\ BatchesOfLast = Ceil(n, BATCH_SIZE)
             /\ ticks = Ceil(n, BATCH_SIZE) + 1

\* a drawing of BATCH_SIZE + 1 records has finished after three callbacks
C5_Witness ==
    /\ ~isDrawing
    /\ started # <<>>
    /\ Len(Last(started).pixels) = BATCH_SIZE + 1
    /\ BatchesOfLast = 2
    /\ ticks = 3

\* C6: when a fetch returns a well-formed document whose stamp equals
\* lastTimestamp, nothing is sent, no drawing starts, and the agent is idle
\* again with lastTimestamp unchanged.
C6_SameStampNoRedraw ==
    [][(pollPc = "fetching" /\ pollPc' = "wait" /\ lastFetch' # "http-failed"
        /\ WellFormed(remote) /\ Stamp(remote) = lastTimestamp)
       => /\ UNCHANGED <<lastTimestamp, isDrawing, drawConnection, conns,
                         canvasLog, started>>
          /\ ~isDrawing']_vars

\* a fetch found the stamp unchanged where the served document is not the one
\* drawn last and the stamp of one of the two is a pixel count
C6_Witness ==
    /\ lastFetch = "unchanged"
    /\ pollPc = "wait"
    /\ ~isDrawing
    /\ WellFormed(remote)
    /\ Stamp(remote) = lastTimestamp
    /\ started # <<>>
    /\ remote.pixels # Last(started).pixels
    /\ remote.updatedAt = Nil

\* C7: the records sent are the drawings started, each in full and in order,
\* followed by a prefix of the one started last; while fetchAndDraw is under
\* way, the only caller of startDrawing, no connection is registered.
C7_NoCancellation ==
    /\ IsPrefix(SentRecords, StartedRecords)
    /\ Len(SentRecords) >= Len(EarlierRecords)
    /\ pollPc = "fetching" => (drawConnection = NoConnection /\ conns = <<>>)

\* a drawing is partly sent while a document with another stamp is served
C7_Witness ==
    /\ isDrawing
    /\ Len(started) >= 1
    /\ Len(SentRecords) > Len(EarlierRecords)
    /\ Len(SentRecords) < Len(StartedRecords)
    /\ WellFormed(remote)
    /\ remote.pixels # Last(started).pixels
    /\ Stamp(remote) # lastTimestamp

\* the drawing d was started last and every record of it is sent
Rendered(d) ==
    /\ ~isDrawing
    /\ started # <<>>
    /\ Last(started).pixels = d.pixels
    /\ lastTimestamp = Stamp(d)
    /\ SentRecords = StartedRecords

\* C8: a document with a new stamp that is served while a drawing is in
\* progress, and stays served, is eventually drawn in full.
C8_NewerDocumentDrawn ==
    \A d \in Drawings :
        (isDrawing /\ remote = d /\ Stamp(d) # lastTimestamp)
            ~> (remote # d \/ Rendered(d))

\* a document published during an earlier drawing has been drawn in full
C8_Witness ==
    /\ published > 0
    /\ Len(started) >= 2
    /\ Last(started).pixels # <<>>
    /\ Rendered(remote)

\* C9: a fetch that fails, or returns a body that is not JSON, not a table or
\* has no pixels, changes nothing but the position of the polling thread.
C9_BadFetchChangesNothing ==
    [][(pollPc = "fetching" /\ pollPc' = "wait"
        /\ (lastFetch' = "http-failed" \/ ~WellFormed(remote)))
       => UNCHANGED <<lastTimestamp, isDrawing, drawConnection, conns,
                      canvasLog, started, pendingRefresh>>]_vars

\* after a drawing, a fetch met a table without pixels and left the state
C9_Witness ==
    /\ lastFetch = "bad-json"
    /\ remote = NoPixels
    /\ pollPc = "wait"
    /\ lastTimestamp # ""
    /\ ~isDrawing

---------------------------------------------------------------------------
\* the archive write, the encode step or the document publish of POST /upload
\* is under way
UploadWorking(rq) ==
    /\ rq.kind = "upload"
    /\ rq.pc \in {"img_sha", "img_put", "encode", "doc_sha", "doc_put"}

\* C11: in POST /upload the archive write, the encode step and the document
\* publish begin only in the step in which the reachability check returns
\* successfully; a request whose check fails answers 500 with an error, and
\* no step of a request that has not passed the check changes the store.
C11_VerifyBeforeWork ==
    [][\A r \in Reqs :
         /\ (~UploadWorking(req[r]) /\ UploadWorking(req'[r]))
            => req[r].pc = "verify"
         /\ (req[r].pc = "verify" /\ req'[r].pc = "done")
            => /\ req'[r].res.type = "error"
               /\ req'[r].res.status = 500
               /\ store' = store
         /\ (req[r].pc \in {"idle", "verify"} /\ req'[r] # req[r])
            => store' = store]_vars

\* POST /upload has archived the image and has not answered yet
Archived(rq) ==
    /\ rq.kind = "upload"
    /\ rq.pc \in {"encode", "doc_sha", "doc_put"}

\* C12: a POST /upload that has archived the image ends in one of two ways:
\* its write of drawing.json is accepted and it answers success, or (the
\* encode or the publish failed) it answers 500 with an error and leaves the
\* whole store as it is: the archived image stays, the document published
\* before stays.  No step it takes after archiving touches the archive.
C12_NoRollback ==
    [][\A r \in Reqs :
         (Archived(req[r]) /\ req'[r] # req[r])
         => /\ store'[req[r].imageInfo.path] = store[req[r].imageInfo.path]
            /\ req'[r].pc = "done" =>
                 \/ /\ req[r].pc = "doc_put"
                    /\ req'[r].res.type = "success"
                    /\ req'[r].docPut = "accepted"
                    /\ store'[DRAWING_FILE] = StoredFile(req[r].content)
                 \/ /\ req'[r].res.type = "error"
                    /\ req'[r].res.status = 500
                    /\ req'[r].res.error # <<>>
                    /\ req'[r].docPut # "accepted"
                    /\ store' = store]_vars

\* an upload archived its image over the one archived before, its publish
\* was refused, and it answered with an error: the new image is in the
\* archive and drawing.json is the document the deployment started with
C12_Witness ==
    \E r \in Reqs :
        /\ req[r].kind = "upload"
        /\ req[r].pc = "done"
        /\ req[r].res.type = "error"
        /\ req[r].docPut \in {"nosha", "conflict", "failed"}
        /\ store[ImagePath(SeedName)] = StoredFile(Base64("red"))
        /\ store[DRAWING_FILE] = SeedStore[DRAWING_FILE]

\* the answer of line 271
NotFoundRes == ErrorRes(404, <<"File not found">>)

\* C13: when the lookup of DELETE /images/:filename returns for a path the
\* store does not hold, the request answers 404 "File not found" in that
\* step, never reaches axios.delete, and the store is left as it is; this
\* holds at every such lookup, so also when the request is repeated.
C13_DeleteAbsent ==
    [][\A r \in Reqs :
         (req[r].pc = "del_sha" /\ ~Exists(req[r].filePath) /\ req'[r] # req[r])
         => /\ req'[r].pc = "done"
            /\ req'[r].res = NotFoundRes
            /\ store' = store]_vars

\* the store is reachable and a DELETE of a path it does not hold was
\* answered 404 twice, with the store as it started
C13_Witness ==
    \E r1, r2 \in Reqs :
        /\ r1 # r2
        /\ ApiReachable
        /\ req[r1].kind = "delete" /\ req[r2].kind = "delete"
        /\ req[r1].pc = "done" /\ req[r2].pc = "done"
        /\ req[r1].filePath = req[r2].filePath
        /\ ~Exists(req[r1].filePath)
        /\ req[r1].res = NotFoundRes /\ req[r2].res = NotFoundRes
        /\ store = SeedStore

\* C14: a store call that fails for authorization or transport surfaces as
\* an error.  With the repository named (a failure is then 401, 403 or a
\* network error), when a lookup returns for a path the store holds, the
\* handler either has the current sha or answers with an error other than
\* 404; when the listing returns for a folder that holds files, the handler
\* answers with those files or with an error.
C14_StoreErrorsSurface ==
    [][\A r \in Reqs :
         /\ (req[r].pc \in {"img_sha", "doc_sha", "del_sha"} /\ repo
             /\ Exists(req[r].filePath) /\ req'[r] # req[r])
            => \/ req'[r].sha = store[req[r].filePath].sha
               \/ /\ req'[r].pc = "done"
                  /\ req'[r].res.type = "error"
                  /\ req'[r].res.status # 404
         /\ (req[r].pc = "list" /\ repo /\ FolderFiles # {} /\ req'[r] # req[r])
            => \/ req'[r].res = ImagesRes(FolderFiles)
               \/ req'[r].res.type = "error"]_vars

\* C15: the document at drawing.json, when present, has meta.totalPixels
\* equal to the length of its pixels.
C15_TotalPixelsIsLength ==
    Exists(DRAWING_FILE) => StoredDoc.meta.totalPixels = Len(StoredDoc.pixels)

\* the service has published a document whose pixel list is sparse: some
\* cells of the grid have a record, not all
C15_Witness ==
    /\ Exists(DRAWING_FILE)
    /\ \E r \in Reqs : req[r].docPut = "accepted"
    /\ StoredDoc.pixels # <<>>
    /\ Len(StoredDoc.pixels) < CANVAS_SIZE * CANVAS_SIZE
    /\ StoredDoc.meta.totalPixels = Len(StoredDoc.pixels)

\* C16: no step of a POST /use-image request changes an entry of the image
\* archive, whether the request ends with success or with an error.
C16_UseImageKeepsArchive ==
    [][\A r \in Reqs :
         (req'[r] # req[r] /\ req'[r].kind = "use-image")
         => \A p \in ImagePaths : store'[p] = store[p]]_vars

\* a POST /use-image published a new document from an archived image and
\* the archive is as it started
C16_Witness ==
    \E r \in Reqs :
        /\ req[r].kind = "use-image"
        /\ req[r].pc = "done"
        /\ req[r].res.type = "success"
        /\ req[r].docPut = "accepted"
        /\ store[DRAWING_FILE] # SeedStore[DRAWING_FILE]
        /\ StoredDoc.meta.imageUrl = RawUrl(ImagePath(SeedName))
        /\ \A p \in ImagePaths : store[p] = SeedStore[p]

\* the number of awaits a handler at pc has before it at most
Rank(pc) ==
    CASE pc = "done" -> 0
      [] pc \in {"doc_put", "del_call", "list", "cc_verify"} -> 1
      [] pc \in {"doc_sha", "del_sha"} -> 2
      [] pc = "encode" -> 3
      [] pc \in {"img_put", "fetch"} -> 4
      [] pc = "img_sha" -> 5
      [] pc = "verify" -> 6
      [] OTHER -> 7

\* the answer reports a failure
Failure(res) == res.status >= 400

---------------------------------------------------------------------------
\* "my_photo_1.png"
MyPhotoSafe == <<"m", "y", "_", "p", "h", "o", "t", "o", "_", "1",
                 ".", "p", "n", "g">>

\* C18: the sanitized name has only characters of [a-z0-9._-], is no longer
\* than the original, is left as it is by a second sanitizing, and
\* "My Photo! (1).PNG" gives "my_photo_1.png".
C18_SanitizedName ==
    /\ call.fn \in {"sanitize", "sanitize-again"} =>
          /\ \A i \in 1..Len(call.out) : call.out[i] \in SafeChars
          /\ Len(call.out) <= Len(call.arg)
          /\ call.arg = MyPhoto => call.out = MyPhotoSafe
    /\ call.fn = "sanitize-again" => call.again = call.out

\* "My Photo! (1).PNG" was sanitized, and the result sanitized again
C18_Witness ==
    /\ call.fn = "sanitize-again"
    /\ call.arg = MyPhoto
    /\ call.out = MyPhotoSafe
    /\ call.again = MyPhotoSafe

\* record p comes before record q in row-major order
RowMajorBefore(p, q) == p.y < q.y \/ (p.y = q.y /\ p.x < q.x)

\* C19: every record imageToPixels emits has 1 <= x, y <= CANVAS_SIZE, no
\* cell has two records, and the list is strictly increasing in (y, x).
C19_RowMajorOneBased ==
    call.fn = "imageToPixels" =>
        /\ \A i \in 1..Len(call.out) :
              /\ call.out[i].x \in 1..CANVAS_SIZE
              /\ call.out[i].y \in 1..CANVAS_SIZE
        /\ \A i, j \in 1..Len(call.out) :
              (i # j) => <<call.out[i].x, call.out[i].y>> # <<call.out[j].x, call.out[j].y>>
        /\ \A i \in 1..(Len(call.out) - 1) :
              RowMajorBefore(call.out[i], call.out[i + 1])

\* a raster whose first cell and last cell are visible and whose second
\* cell is not: the list starts at (1,1), skips (2,1) and ends in the last
\* row and column
C19_Witness ==
    /\ call.fn = "imageToPixels"
    /\ Len(call.out) >= 2
    /\ Len(call.out) < CANVAS_SIZE * CANVAS_SIZE
    /\ <<call.out[1].x, call.out[1].y>> = <<1, 1>>
    /\ <<call.out[2].x, call.out[2].y>> # <<2, 1>>
    /\ <<Last(call.out).x, Last(call.out).y>> = <<CANVAS_SIZE, CANVAS_SIZE>>

\* the bytes of cell k (row-major, 0-based) of the raster
CellOf(ras, k) == [r |-> ras.data[4 * k + 1], g |-> ras.data[4 * k + 2],
                   b |-> ras.data[4 * k + 3], a |-> ras.data[4 * k + 4]]

\* the cell a record names
CellIndex(p) == (p.y - 1) * CANVAS_SIZE + (p.x - 1)

\* C20: imageToPixels emits a record for a cell exactly when the alpha of
\* the cell is at least 10, with the r, g, b of the cell; a raster with every
\* alpha below 10 gives the empty list, a raster with every cell opaque gives
\* CANVAS_SIZE * CANVAS_SIZE records.
C20_AlphaThreshold ==
    call.fn = "imageToPixels" =>
        /\ \A k \in Cells :
              (\E i \in 1..Len(call.out) : CellIndex(call.out[i]) = k)
              <=> CellOf(call.arg, k).a >= 10
        /\ \A i \in 1..Len(call.out) :
              LET c == CellOf(call.arg, CellIndex(call.out[i]))
              IN  /\ call.out[i].r = c.r
                  /\ call.out[i].g = c.g
                  /\ call.out[i].b = c.b
        /\ (\A k \in Cells : CellOf(call.arg, k).a < 10) => call.out = <<>>
        /\ (\A k \in Cells : CellOf(call.arg, k).a = 255)
              => Len(call.out) = CANVAS_SIZE * CANVAS_SIZE

\* a raster with a cell of alpha 9 and a cell of alpha 10: the first has no
\* record, the second has one
C20_Witness ==
    /\ call.fn = "imageToPixels"
    /\ CellOf(call.arg, 0).a = 9
    /\ CellOf(call.arg, 1).a = 10
    /\ \A k \in Cells \ {0, 1} : CellOf(call.arg, k).a = 255
    /\ Len(call.out) = CANVAS_SIZE * CANVAS_SIZE - 1
    /\ <<call.out[1].x, call.out[1].y>> = <<2, 1>>
    /\ call.out[1].r = CellOf(call.arg, 1).r

---------------------------------------------------------------------------
\* Batched sending.

\* the entries of canvasLog that belong to the drawing started k-th
EntriesOf(k) == SelectSeq(canvasLog, LAMBDA e : e.render = k)
\* the records handed to sendBulk for the drawing started k-th, in order
RecordsOf(k) == Flatten([i \in 1..Len(EntriesOf(k)) |-> EntriesOf(k)[i].batch])
\* the FireServer calls of an entry that returned
Returned(e) == SelectSeq(e.calls, LAMBDA c : c.ok)
\* the record table among the arguments of a call made in the given order
TableOf(args, order) == IF order = "layer-first" THEN args[2] ELSE args[1]
\* the records ReplicateCanvas received for the drawing started k-th, in order
DeliveredOf(k) ==
    Flatten([i \in 1..Len(EntriesOf(k)) |->
                LET e == EntriesOf(k)[i]
                IN  Flatten([j \in 1..Len(Returned(e)) |->
                                TableOf(Arguments(e.batch, Returned(e)[j].order),
                                        Returned(e)[j].order)])])
\* the drawing started k-th has run to its end
RenderDone(k) == k < Len(started) \/ ~isDrawing

---------------------------------------------------------------------------
\* The refresh signal.

\* the drawings whose refresh callback was scheduled, in order
Scheduled == refreshed \o pendingRefresh

\* C22: the refresh callback is scheduled once for a drawing, at its end and
\* after all its records have been sent, and only if UpdateBoard exists; each
\* scheduled callback calls UpdateBoard:FireServer once; the call, whether it
\* returns or throws, changes nothing of the agent: isDrawing, lastTimestamp,
\* the connection, the position of the polling thread and what was sent stay
\* as they were.
C22_RefreshOncePerRender ==
    /\ [](/\ \A i, j \in 1..Len(Scheduled) : Scheduled[i] = Scheduled[j] => i = j
          /\ \A i \in 1..Len(Scheduled) :
                /\ Scheduled[i] \in 1..Len(started)
                /\ RenderDone(Scheduled[i])
                /\ RecordsOf(Scheduled[i]) = started[Scheduled[i]].pixels
          /\ ~hasUpdateBoard => Scheduled = <<>>
          /\ hasUpdateBoard =>
                \A k \in 1..Len(started) :
                    RenderDone(k) => \E i \in 1..Len(Scheduled) : Scheduled[i] = k)
    /\ [][refreshed' # refreshed =>
             /\ refreshed' = Append(refreshed, Head(pendingRefresh))
             /\ pendingRefresh' = Tail(pendingRefresh)
             /\ UNCHANGED <<isDrawing, lastTimestamp, drawConnection, conns,
                            nextConn, pollPc, lastFetch, canvasLog, started,
                            remote, ticks, fetchStarts>>]_vars

\* the refresh signal of the first drawing was sent after its last batch and
\* threw; the agent is idle with the stamp of that drawing and polls on
C22_Witness ==
    /\ refreshed = <<1>>
    /\ refreshThrew
    /\ pendingRefresh = <<>>
    /\ ~isDrawing
    /\ Len(started) = 1
    /\ started[1].pixels # <<>>
    /\ lastTimestamp = started[1].stamp
    /\ pollPc = "fetching"

---------------------------------------------------------------------------
\* The draw flag and the heartbeat connection.

\* the heartbeat connections that are registered
Registered == DOMAIN conns

\* C23: isDrawing holds exactly when drawConnection is set; the connection it
\* names is the only one registered, and none is registered when it is nil;
\* stopDrawing, called in any state, leaves isDrawing false, drawConnection
\* nil and the old connection disconnected; a step that ends a drawing clears
\* isDrawing and drawConnection together and leaves no connection.
C23_FlagMatchesConnection ==
    /\ [](/\ isDrawing <=> drawConnection # NoConnection
          /\ Cardinality(Registered) <= 1
          /\ Registered = (IF isDrawing THEN {drawConnection} ELSE {})
          /\ stopDrawing.isDrawing = FALSE
          /\ stopDrawing.drawConnection = NoConnection
          /\ DOMAIN stopDrawing.conns = {})
    /\ [][(isDrawing /\ ~isDrawing') \/ (drawConnection # NoConnection
                                         /\ drawConnection' = NoConnection)
            => /\ ~isDrawing'
               /\ drawConnection' = NoConnection
               /\ DOMAIN conns' = {}]_vars

\* the second drawing is in progress: its connection is the only one, the
\* connection of the first drawing is gone
C23_Witness ==
    /\ isDrawing
    /\ Len(started) = 2
    /\ drawConnection = 2
    /\ Registered = {2}
    /\ conns[2].index > 1

---------------------------------------------------------------------------
\* Termination of a drawing.

\* the drawings one run can start
MaxRenders == MaxPublish + 1

\* C24: when the engine keeps running the Heartbeat callback, every drawing
\* that starts, the empty one included, ends: each callback that does not end
\* the drawing moves index forward, by at least one and never past total + 1,
\* and the callback that finds index > total disconnects and clears isDrawing
\* before any other drawing starts; the polling thread then fetches again.
C24_RenderTerminates ==
    /\ \A k \in 1..MaxRenders :
          (isDrawing /\ Len(started) = k)
              ~> (/\ ~isDrawing
                  /\ drawConnection = NoConnection
                  /\ Len(started) = k
                  /\ RecordsOf(k) = started[k].pixels
                  /\ pollPc = "fetching")
    /\ [][\A c \in DOMAIN conns :
             (ticks' = ticks + 1 /\ c \in DOMAIN conns')
                => /\ conns'[c].index > conns[c].index
                   /\ conns'[c].index <= conns[c].total + 1
                   /\ conns'[c].total = conns[c].total]_vars
    /\ [][(ticks' = ticks + 1 /\ DOMAIN conns' = {})
             => \A c \in DOMAIN conns : conns[c].index = conns[c].total + 1]_vars

\* an empty drawing ended at its first callback, a later drawing of
\* 2 * BATCH_SIZE + 1 records ended at its fourth, and the polling thread is
\* fetching again
C24_Witness ==
    /\ ~isDrawing
    /\ drawConnection = NoConnection
    /\ Len(started) = 2
    /\ started[1].pixels = <<>>
    /\ Len(started[2].pixels) = 2 * BATCH_SIZE + 1
    /\ ticks = 4
    /\ pollPc = "fetching"

---------------------------------------------------------------------------
\* What a convert request answers and what it publishes.

\* the keys of meta in a document the service writes
MetaKeys == {"canvasSize", "totalPixels", "updatedAt", "filename", "imageUrl"}

\* the request takes the step in which it answers success
AnswersSuccess(r) ==
    /\ Convert(r)
    /\ req[r].pc # "done"
    /\ req'[r].pc = "done"
    /\ req'[r].res.type = "success"

\* C25: a convert request that has answered, answered success exactly when
\* the store accepted its own write of drawing.json, and with an error when
\* that write was refused, failed or was never sent; drawing.json changes
\* only in the step in which a request's write is accepted, which is the step
\* in which that request answers success; the document stored by that step
\* has the pixels encoded from the image of that request, the filename and
\* imageUrl of that request, canvasSize, totalPixels and updatedAt, and
\* nothing else, whatever the document before held.
C25_SuccessIffOwnWriteAccepted ==
    /\ [](\A r \in Reqs :
            (Convert(r) /\ req[r].pc = "done")
            => /\ req[r].res.type \in {"success", "error"}
               /\ req[r].res.type = "success" <=> req[r].docPut = "accepted"
               /\ req[r].docPut \in {"none", "nosha", "conflict", "failed"}
                     => /\ req[r].res.type = "error"
                        /\ req[r].res.status \in {400, 500}
                        /\ req[r].res.error # <<>>)
    /\ [][\A r \in Reqs :
            AnswersSuccess(r)
            => /\ req[r].pc = "doc_put"
               /\ req[r].sha = store[DRAWING_FILE].sha
               /\ store'[DRAWING_FILE] # NoFile
               /\ StoredDoc'.pixels = imageToPixels(req[r].buffer)
               /\ DOMAIN StoredDoc'.meta = MetaKeys
               /\ StoredDoc'.meta.filename = MetaArg(req[r]).filename
               /\ StoredDoc'.meta.imageUrl = MetaArg(req[r]).imageUrl
               /\ StoredDoc'.meta.canvasSize = CANVAS_SIZE
               /\ StoredDoc'.meta.totalPixels = Len(imageToPixels(req[r].buffer))
               /\ \A q \in Reqs \ {r} : req'[q] = req[q]]_vars
    /\ [][store'[DRAWING_FILE] # store[DRAWING_FILE]
            => \E r \in Reqs : AnswersSuccess(r)]_vars

\* two convert requests were in flight together; the write of one was
\* accepted and it answered success, the other, holding the sha read before,
\* was refused and answered 500; drawing.json holds a document with pixels,
\* counted as the first request reported them
C25_Witness ==
    \E r1, r2 \in Reqs :
        /\ r1 # r2
        /\ Convert(r1) /\ Convert(r2)
        /\ req[r1].pc = "done" /\ req[r2].pc = "done"
        /\ req[r1].docPut = "accepted" /\ req[r1].res.type = "success"
        /\ req[r2].docPut = "conflict" /\ req[r2].res.status = 500
        /\ StoredDoc.pixels # <<>>
        /\ StoredDoc.meta.totalPixels = req[r1].res.data.totalPixels

=============================================================================
